---- MODULE Spec2Model ----
(***************************************************************************)
(* Model of the webtop deployment lifecycle manager                        *)
(* (src/webtop_backend_script.py): manifest inspection, the on-disk        *)
(* registry of workload directories, run-script generation, the detached   *)
(* launch, and the status / stop / cleanup / list operations.              *)
(*                                                                         *)
(* Text (manifest bytes, file names, form keys, identities) is a sequence  *)
(* of one-character strings, so that the regular expressions, the file     *)
(* name sanitisation and the key ordering are computed character by        *)
(* character as the code computes them.                                    *)
(***************************************************************************)
EXTENDS Integers, Sequences, FiniteSets, TLC

(***************************************************************************)
(* Bounds of the model.                                                    *)
(***************************************************************************)
\* launches of a run script in the lifecycle specification: at most MaxPid
\* Popen calls are made
MaxPid == 1
\* launches of a run script in the deploy specification
MaxDeploys == 2
\* launches of a run script in the inspection specification
MaxInspect == 1
\* launches of a run script in the registry specification
MaxRegistry == 2
\* launches of a run script in the script-execution specification
MaxRun == 1
\* launches of a run script in the stop specification
MaxStop == 2
\* requests served concurrently in the concurrent specifications
MaxThreads == 2
\* deploys served before the concurrent stops and cleanups
MaxSetup == 1

(***************************************************************************)
(* Literals of the source.                                                 *)
(***************************************************************************)
RUN_SH == <<"r", "u", "n", ".", "s", "h">>
DEFAULT_USER == <<"d", "e", "f", "a", "u", "l", "t", "_", "u", "s", "e", "r">>
KEY_COMPOSE == <<"d", "o", "c", "k", "e", "r", "-", "c", "o", "m", "p", "o", "s", "e">>
DOCKERFILE_PREFIX == <<"d", "o", "c", "k", "e", "r", "f", "i", "l", "e", "-">>
RESOURCE_PREFIX == <<"r", "e", "s", "o", "u", "r", "c", "e", "-">>
DOCKERFILE_DEFAULT == <<"D", "o", "c", "k", "e", "r", "f", "i", "l", "e", ".">>
RESOURCE_DEFAULT == <<"r", "e", "s", "o", "u", "r", "c", "e", "_">>
EXT_YAML == <<".", "y", "a", "m", "l">>
EXT_YML == <<".", "y", "m", "l">>
RE_CONTAINER_NAME == <<"c", "o", "n", "t", "a", "i", "n", "e", "r", "_", "n", "a", "m", "e", ":">>
RE_NAME_PREFIX == <<"w", "e", "b", "t", "o", "p", "-", "u", "b", "u", "n", "t", "u", "-", "x", "f", "c", "e", "-">>
RE_PORT_SUFFIX == <<":", "3", "0", "0", "0">>
WEBTOP_PREFIX == <<"w", "e", "b", "t", "o", "p", "_">>

\* Python's None for an optional text or an optional integer
None == <<>>

\* a byte that is no valid UTF-8 (such as 0xFF)
InvalidByte == "0xFF"

(***************************************************************************)
(* Character classes and text helpers.                                     *)
(***************************************************************************)
Digits == {"0", "1", "2", "3", "4", "5", "6", "7", "8", "9"}
Lower == {"a", "b", "c", "d", "e", "f", "g", "h", "i", "j", "k", "l", "m",
          "n", "o", "p", "q", "r", "s", "t", "u", "v", "w", "x", "y", "z"}
Upper == {"A", "B", "C", "D", "E", "F", "G", "H", "I", "J", "K", "L", "M",
          "N", "O", "P", "Q", "R", "S", "T", "U", "V", "W", "X", "Y", "Z"}
\* \w of the re module
WordChars == Digits \cup Lower \cup Upper \cup {"_"}
\* \s of the re module
Spaces == {" ", "\n", "\t"}

\* the characters of the model in code-point order
Alphabet == <<"\t", "\n", " ", "\"", "-", ".", "/",
              "0", "1", "2", "3", "4", "5", "6", "7", "8", "9", ":",
              "A", "B", "C", "D", "E", "F", "G", "H", "I", "J", "K", "L", "M",
              "N", "O", "P", "Q", "R", "S", "T", "U", "V", "W", "X", "Y", "Z",
              "_",
              "a", "b", "c", "d", "e", "f", "g", "h", "i", "j", "k", "l", "m",
              "n", "o", "p", "q", "r", "s", "t", "u", "v", "w", "x", "y", "z">>

Ord(c) == CHOOSE i \in 1..Len(Alphabet) : Alphabet[i] = c

\* str < str: lexicographic by code point
StrLess(a, b) ==
    \E k \in 1..(Len(b)) :
        /\ \A j \in 1..(k - 1) : j <= Len(a) /\ a[j] = b[j]
        /\ \/ k = Len(a) + 1
           \/ k <= Len(a) /\ Ord(a[k]) < Ord(b[k])

\* s has the literal lit at position i
MatchLit(s, i, lit) ==
    /\ i >= 1
    /\ i + Len(lit) - 1 <= Len(s)
    /\ \A k \in 1..Len(lit) : s[i + k - 1] = lit[k]

\* str.startswith, str.endswith
StartsWith(s, prefix) == MatchLit(s, 1, prefix)
EndsWith(s, suffix) == MatchLit(s, Len(s) - Len(suffix) + 1, suffix)

\* the position after the longest run of characters of class cls starting at i
SkipWhile(s, i, cls) ==
    CHOOSE j \in i..(Len(s) + 1) :
        /\ \A k \in i..(j - 1) : s[k] \in cls
        /\ j = Len(s) + 1 \/ s[j] \notin cls

DigitVal(c) == Ord(c) - Ord("0")

\* int() of a run of digits
RECURSIVE ParseInt(_)
ParseInt(ds) ==
    IF ds = <<>> THEN 0
    ELSE 10 * ParseInt(SubSeq(ds, 1, Len(ds) - 1)) + DigitVal(ds[Len(ds)])

\* str() of a natural number
RECURSIVE IntToStr(_)
IntToStr(n) ==
    IF n < 10 THEN <<Alphabet[Ord("0") + n]>>
    ELSE IntToStr(n \div 10) \o <<Alphabet[Ord("0") + (n % 10)]>>

(***************************************************************************)
(* Manifest inspection.  An upload is a stream: its bytes and the read     *)
(* position.                                                               *)
(***************************************************************************)
Seek0(stream) == [stream EXCEPT !.pos = 0]

\* stream.read(): the bytes from the read position on; the position moves to the end
ReadData(stream) == SubSeq(stream.bytes, stream.pos + 1, Len(stream.bytes))
ReadPos(stream) == [stream EXCEPT !.pos = Len(stream.bytes)]

\* bytes.decode('utf-8') raises on an invalid byte
Decodable(data) == \A k \in 1..Len(data) : data[k] # InvalidByte

\* re.search(r'container_name:\s*webtop-ubuntu-xfce-(\w+)', content): group 1 of
\* the leftmost match, None without a match
SearchUser(content) ==
    LET TokenStart(p) ==
            SkipWhile(content, p + Len(RE_CONTAINER_NAME), Spaces) + Len(RE_NAME_PREFIX)
        Matches(p) ==
            /\ MatchLit(content, p, RE_CONTAINER_NAME)
            /\ MatchLit(content,
                        SkipWhile(content, p + Len(RE_CONTAINER_NAME), Spaces),
                        RE_NAME_PREFIX)
            /\ SkipWhile(content, TokenStart(p), WordChars) > TokenStart(p)
        hits == {p \in 1..Len(content) : Matches(p)}
    IN  IF hits = {} THEN None
        ELSE LET p == CHOOSE x \in hits : \A y \in hits : x <= y
             IN  SubSeq(content, TokenStart(p),
                        SkipWhile(content, TokenStart(p), WordChars) - 1)

\* re.search(r'-\s*(\d+):3000', content): int(group 1) of the leftmost match,
\* None without a match
SearchPort(content) ==
    LET NumStart(p) == SkipWhile(content, p + 1, Spaces)
        NumEnd(p) == SkipWhile(content, NumStart(p), Digits)
        Matches(p) ==
            /\ content[p] = "-"
            /\ NumEnd(p) > NumStart(p)
            /\ MatchLit(content, NumEnd(p), RE_PORT_SUFFIX)
        hits == {p \in 1..Len(content) : Matches(p)}
    IN  IF hits = {} THEN None
        ELSE LET p == CHOOSE x \in hits : \A y \in hits : x <= y
             IN  <<ParseInt(SubSeq(content, NumStart(p), NumEnd(p) - 1))>>

\* extract_user_from_yaml: the value returned and the stream as it is left
extract_user_from_yaml(yaml_file) ==
    LET data == ReadData(Seek0(yaml_file))
    IN  IF Decodable(data)
        THEN [value |-> SearchUser(data), stream |-> Seek0(yaml_file)]
        ELSE \* decode raised: the second seek(0) is skipped
             [value |-> None, stream |-> ReadPos(Seek0(yaml_file))]

\* extract_port_from_yaml: the value returned and the stream as it is left
extract_port_from_yaml(yaml_file) ==
    LET data == ReadData(Seek0(yaml_file))
    IN  IF Decodable(data)
        THEN [value |-> SearchPort(data), stream |-> Seek0(yaml_file)]
        ELSE [value |-> None, stream |-> ReadPos(Seek0(yaml_file))]

(***************************************************************************)
(* werkzeug.utils.secure_filename, as deploy_webtop applies it to every    *)
(* uploaded file name.                                                     *)
(***************************************************************************)
FilenameChars == WordChars \cup {".", "-"}

secure_filename(filename) ==
    LET \* filename.replace(os.sep, " ")
        a == [i \in 1..Len(filename) |->
                IF filename[i] = "/" THEN " " ELSE filename[i]]
        IsSp(i) == a[i] \in Spaces
        \* "_".join(filename.split())
        b == [i \in 1..Len(a) |->
                IF ~IsSp(i) THEN a[i]
                ELSE IF /\ i > 1
                        /\ ~IsSp(i - 1)
                        /\ \E j \in (i + 1)..Len(a) : ~IsSp(j)
                     THEN "_" ELSE ""]
        Kept(c) == c \in FilenameChars
        \* _filename_ascii_strip_re.sub("", ...)
        c == SelectSeq(b, Kept)
        \* .strip("._")
        inner == {i \in 1..Len(c) : c[i] \notin {".", "_"}}
    IN  IF inner = {} THEN <<>>
        ELSE SubSeq(c,
                    CHOOSE i \in inner : \A j \in inner : i <= j,
                    CHOOSE i \in inner : \A j \in inner : i >= j)

(***************************************************************************)
(* Requests.  request.files is the sequence of uploaded parts in the order *)
(* of the request body; a part has its form key, its file name and its     *)
(* bytes.                                                                  *)
(***************************************************************************)
KeyDockerfile1 == <<"d", "o", "c", "k", "e", "r", "f", "i", "l", "e", "-", "1">>
KeyDockerfile2 == <<"d", "o", "c", "k", "e", "r", "f", "i", "l", "e", "-", "2">>
KeyDockerfile10 == <<"d", "o", "c", "k", "e", "r", "f", "i", "l", "e", "-", "1", "0">>
KeyResource1 == <<"r", "e", "s", "o", "u", "r", "c", "e", "-", "1">>
NameComposeYaml == <<"d", "o", "c", "k", "e", "r", "-", "c", "o", "m", "p", "o", "s", "e", ".", "y", "a", "m", "l">>
NameStackTxt == <<"s", "t", "a", "c", "k", ".", "t", "x", "t">>
NameDotDot == <<".", ".">>
NameExtraYml == <<"e", "x", "t", "r", "a", ".", "y", "m", "l">>
IdBob == <<"b", "o", "b">>
ManifestBobQuoted == <<"c", "o", "n", "t", "a", "i", "n", "e", "r", "_", "n", "a", "m", "e", ":", " ", "w", "e", "b", "t", "o", "p", "-", "u", "b", "u", "n", "t", "u", "-", "x", "f", "c", "e", "-", "b", "o", "b", "\n", " ", " ", " ", " ", "-", " ", "\"", "3", "0", "3", "0", ":", "3", "0", "0", "0", "\"">>
ManifestInvalid == <<"n", "a", "m", "e", ":", " ", InvalidByte>>

\* the manifests uploaded
ManifestBytes == {ManifestBobQuoted, ManifestInvalid}
\* the form keys of the build files of a request, in the order they are submitted
SubmittedKeys == <<KeyDockerfile1, KeyDockerfile2, KeyDockerfile10>>
\* the identities named in the URL of status, stop and cleanup
UrlIds == {IdBob, DEFAULT_USER}

Part(key, filename, bytes) == [key |-> key, filename |-> filename, bytes |-> bytes]
\* files.get(key) when no part has the key
NoPart == Part(<<>>, <<>>, <<>>)

\* the bytes of the part submitted at position k of the request body
PartBytes(k) == <<"#">> \o IntToStr(k)

\* n build files, uploaded without a file name, after `before` other parts
BuildParts(n, before) ==
    [k \in 1..n |-> Part(SubmittedKeys[k], <<>>, PartBytes(before + k))]

\* the multipart bodies with no manifest, or with a manifest of `bytes` named
\* one of `names`; then n build files for an n of `counts`; then no resource
\* file, or one named one of `resources`
Uploads(names, bytes, counts, resources) ==
    LET manifests ==
            {<<>>} \cup {<<Part(KEY_COMPOSE, f, b)>> : f \in names, b \in bytes}
        Resource(before) ==
            {<<>>} \cup {<<Part(KeyResource1, f, PartBytes(before + 1))>> : f \in resources}
    IN  UNION {UNION {{m \o BuildParts(n, Len(m)) \o r : r \in Resource(Len(m) + n)}
                      : n \in counts}
               : m \in manifests}

\* the requests of the lifecycle specification: no file at all, a build file
\* without a manifest, and manifests with no or one build file
Requests ==
    Uploads({NameComposeYaml}, ManifestBytes, {0, 1}, {})
    \cup Uploads({NameStackTxt, NameDotDot}, {ManifestBobQuoted}, {0}, {})

\* the requests of the deploy specification: manifests with up to three build
\* files, and with a resource file
DeployRequests ==
    Uploads({NameComposeYaml, NameDotDot}, ManifestBytes, 0..Len(SubmittedKeys), {})
    \cup Uploads({NameComposeYaml}, ManifestBytes, {0}, {NameExtraYml})

\* the manifests of the inspection specification: a container_name line naming
\* the container of an identity token, or no such line, and then up to two port
\* mappings, `- <host>:<container>` each on its line
IdSmith == <<"s", "m", "i", "t", "h">>
IdWebtopA == <<"w", "e", "b", "t", "o", "p", "_", "a">>
IdA == <<"a">>
Port3000 == <<"3", "0", "0", "0">>
Port30000 == <<"3", "0", "0", "0", "0">>
Port80 == <<"8", "0">>
Host3021 == <<"3", "0", "2", "1">>
Host8080 == <<"8", "0", "8", "0">>

\* identity tokens: one word, or two words joined by - or _
Words == {IdBob, IdSmith}
Tokens == Words \cup {a \o <<sep>> \o b : a \in Words, b \in Words, sep \in {"-", "_"}}

NameLine(token) == RE_CONTAINER_NAME \o <<" ">> \o RE_NAME_PREFIX \o token \o <<"\n">>
PortsLine == <<"p", "o", "r", "t", "s", ":", "\n">>
MappingLine(host, container) ==
    <<" ", " ", "-", " ">> \o host \o <<":">> \o container \o <<"\n">>

\* the container-side ports of the mappings of a manifest, in order; the k-th
\* mapping has the k-th host port of HostPorts
HostPorts == <<Host3021, Host8080>>
ContainerPorts == {Port3000, Port30000, Port80}
Mappings == {<<>>} \cup {<<c>> : c \in ContainerPorts}
                \cup {<<c1, c2>> : c1 \in ContainerPorts, c2 \in ContainerPorts}

MappingLines(mappings) ==
    IF mappings = <<>> THEN <<>>
    ELSE IF Len(mappings) = 1 THEN MappingLine(HostPorts[1], mappings[1])
    ELSE MappingLine(HostPorts[1], mappings[1]) \o MappingLine(HostPorts[2], mappings[2])

\* name is <<token>>, or <<>> for a manifest without a container_name line
ManifestOf(name, mappings) ==
    (IF name = <<>> THEN <<>> ELSE NameLine(name[1]))
    \o PortsLine \o MappingLines(mappings)

Upload(bytes) == <<Part(KEY_COMPOSE, NameComposeYaml, bytes)>>

InspectRequests ==
    {Upload(ManifestOf(name, mappings)) :
        name \in {<<>>} \cup {<<t>> : t \in Tokens}, mappings \in Mappings}

\* the requests of the registry specification: manifests of three identities
RegistryIds == {IdBob, IdA, IdWebtopA}
RegistryRequests == {Upload(ManifestOf(<<i>>, <<>>)) : i \in RegistryIds}

\* the requests of the stop specification: a manifest under one of three file
\* names, alone or with a resource file extra.yml
StopRequests ==
    Uploads({NameComposeYaml, NameExtraYml, NameStackTxt}, {ManifestBobQuoted}, {0},
            {NameExtraYml})

\* the requests of the concurrent deploys: two manifests of bob under the same
\* file name, the first with a build file
RaceRequests ==
    {Upload(ManifestBobQuoted) \o BuildParts(1, 1),
     Upload(ManifestOf(<<IdBob>>, <<Port3000>>))}

\* MultiDict.get / MultiDict[key]: the first part with the key
FilesGet(files, key) ==
    LET at == {i \in 1..Len(files) : files[i].key = key}
    IN  IF at = {} THEN NoPart
        ELSE files[CHOOSE i \in at : \A j \in at : i <= j]

\* sorted(keys): ascending by str comparison
RECURSIVE Sorted(_)
Sorted(keys) ==
    IF keys = {} THEN <<>>
    ELSE LET m == CHOOSE x \in keys : \A y \in keys \ {x} : StrLess(x, y)
         IN  <<m>> \o Sorted(keys \ {m})

\* sorted(files.keys())
SortedKeys(files) == Sorted({files[i].key : i \in 1..Len(files)})

(***************************************************************************)
(* State.                                                                  *)
(***************************************************************************)
VARIABLES
    dirs,        \* the registry: identity -> workload directory (file name -> file)
    children,    \* the Popen calls made, in order: the child each one launched
    containers,  \* the runtime: identities whose container is running
    req,         \* the request the last handler served
    resp,        \* the response of the last handler
    cmds,        \* the external commands the last handler invoked
    inflight     \* the handlers that run concurrently, each with its position

vars == <<dirs, children, containers, req, resp, cmds, inflight>>

\* a file of a workload directory; kind is the role it was last written in
File(kind, bytes, script) == [kind |-> kind, bytes |-> bytes, script |-> script]

NoFiles == <<>>

\* os.path.exists(webtop_dir)
Exists(d, webtop_id) == webtop_id \in DOMAIN d

\* os.makedirs(webtop_dir, exist_ok=True)
Makedirs(d, webtop_id) ==
    IF Exists(d, webtop_id) THEN d ELSE d @@ (webtop_id :> NoFiles)

\* WriteFile with the file opened for appending: a script written over a
\* script keeps the lines that were there
WriteFileAppending(dir, name, file) ==
    [n \in DOMAIN dir \cup {name} |->
        IF n # name THEN dir[n]
        ELSE IF name \in DOMAIN dir
        THEN [file EXCEPT !.script = dir[name].script \o file.script]
        ELSE file]

\* writing a file of a directory: created, or overwritten in place
WriteFile(dir, name, file) ==
    [n \in DOMAIN dir \cup {name} |-> IF n = name THEN file ELSE dir[n]]

\* FileStorage.save(os.path.join(webtop_dir, name)): the stream is copied from
\* its read position on; an empty name is the directory itself and open() raises
SaveRaises(name) == name = <<>>
Saved(name, kind, stream) == [name |-> name, file |-> File(kind, ReadData(stream), <<>>)]

\* Rmtree given the upload root instead of the workload directory
RmtreeUploadDir(d, webtop_id) == <<>>

\* shutil.rmtree(webtop_dir)
Rmtree(d, webtop_id) == [i \in DOMAIN d \ {webtop_id} |-> d[i]]

(***************************************************************************)
(* The run script: one record per f.write of deploy_webtop.                *)
(***************************************************************************)
Line(op, file, id, n) == [op |-> op, file |-> file, id |-> id, n |-> n]

\* BuildBlock without the exit in the check: a failed build is reported and
\* the script goes on
BuildBlockNoExit(webtop_id, dockerfile, i) ==
    <<Line("echo building", <<>>, webtop_id, i),
      Line("docker build", dockerfile, webtop_id, i),
      Line("if $? -ne 0", <<>>, <<>>, 0),
      Line("echo failed", <<>>, webtop_id, i),
      Line("fi", <<>>, <<>>, 0)>>

\* the block written for the i-th saved build file
BuildBlock(webtop_id, dockerfile, i) ==
    <<Line("echo building", <<>>, webtop_id, i),
      Line("docker build", dockerfile, webtop_id, i),
      Line("if $? -ne 0", <<>>, <<>>, 0),
      Line("echo failed", <<>>, webtop_id, i),
      Line("exit 1", <<>>, <<>>, 0),
      Line("fi", <<>>, <<>>, 0)>>

\* for i, dockerfile in enumerate(saved_files["dockerfiles"], 1)
RECURSIVE BuildBlocks(_, _, _)
BuildBlocks(webtop_id, dockerfiles, i) ==
    IF i > Len(dockerfiles) THEN <<>>
    ELSE BuildBlock(webtop_id, dockerfiles[i], i)
            \o BuildBlocks(webtop_id, dockerfiles, i + 1)

\* the text written to run.sh
RunScript(webtop_id, yaml_filename, dockerfiles) ==
    <<Line("#!/bin/bash", <<>>, <<>>, 0),
      Line("# user", <<>>, webtop_id, 0),
      Line("# generated", <<>>, <<>>, 0),
      Line("cd", <<>>, webtop_id, 0)>>
    \o (IF dockerfiles # <<>>
        THEN <<Line("# build", <<>>, <<>>, 0)>> \o BuildBlocks(webtop_id, dockerfiles, 1)
        ELSE <<>>)
    \o <<Line("# launch", <<>>, <<>>, 0),
         Line("echo starting", yaml_filename, <<>>, 0),
         Line("docker compose up", yaml_filename, <<>>, 0),
         Line("if $? -eq 0", <<>>, <<>>, 0),
         Line("echo success", <<>>, webtop_id, 0),
         Line("else", <<>>, <<>>, 0),
         Line("echo error", <<>>, <<>>, 0),
         Line("exit 1", <<>>, <<>>, 0),
         Line("fi", <<>>, <<>>, 0)>>

(***************************************************************************)
(* Responses and the log of external commands.                             *)
(***************************************************************************)
NoResp ==
    [op |-> "", code |-> 0, status |-> "", message |-> "",
     webtop_id |-> None, port |-> None,
     yaml |-> None, dockerfiles |-> <<>>, resources |-> <<>>,
     process_id |-> 0, container_name |-> None,
     container |-> <<>>, container_status |-> "",
     ports |-> "", webtops |-> <<>>, count |-> 0]

NoReq == [op |-> "", webtop_id |-> None, files |-> <<>>]

Cmd(cmd, webtop_id, file) == [cmd |-> cmd, webtop_id |-> webtop_id, file |-> file]

\* f"webtop-ubuntu-xfce-{webtop_id}"
ContainerName(webtop_id) == RE_NAME_PREFIX \o webtop_id

(***************************************************************************)
(* POST /deploy                                                            *)
(***************************************************************************)
\* one of the two save loops of deploy_webtop: the parts whose key starts with
\* prefix, in the order of sorted(files.keys()); the files written, in order,
\* the list of saved names, and whether a save raised
RECURSIVE SaveLoop(_, _, _, _, _, _, _)
SaveLoop(keys, files, prefix, default, kind, writes, names) ==
    IF keys = <<>> THEN [writes |-> writes, names |-> names, raised |-> FALSE]
    ELSE IF ~StartsWith(Head(keys), prefix)
    THEN SaveLoop(Tail(keys), files, prefix, default, kind, writes, names)
    ELSE LET part == FilesGet(files, Head(keys))
             name == secure_filename(IF part.filename # <<>> THEN part.filename
                                     ELSE default \o IntToStr(Len(names) + 1))
         IN  IF SaveRaises(name)
             THEN [writes |-> writes, names |-> names, raised |-> TRUE]
             ELSE SaveLoop(Tail(keys), files, prefix, default, kind,
                           Append(writes, Saved(name, kind, [bytes |-> part.bytes, pos |-> 0])),
                           Append(names, name))

SaveDockerfiles(files) ==
    SaveLoop(SortedKeys(files), files, DOCKERFILE_PREFIX, DOCKERFILE_DEFAULT,
             "dockerfile", <<>>, <<>>)

SaveResources(files) ==
    SaveLoop(SortedKeys(files), files, RESOURCE_PREFIX, RESOURCE_DEFAULT,
             "resource", <<>>, <<>>)

\* what deploy_webtop does with a request, up to the launch: the message it
\* rejects the request with (400), or the identity and port it extracts, the
\* files it writes into the workload directory, in order, whether a save
\* raised (500), the saved names it reports and the script it generates
DeployPlan(files) ==
    LET yaml_file == FilesGet(files, KEY_COMPOSE)
        yaml_filename == secure_filename(yaml_file.filename)
        user == extract_user_from_yaml([bytes |-> yaml_file.bytes, pos |-> 0])
        port == extract_port_from_yaml(user.stream)
        webtop_id == IF user.value = None THEN DEFAULT_USER ELSE user.value
        df == SaveDockerfiles(files)
        rs == SaveResources(files)
        script == RunScript(webtop_id, yaml_filename, df.names)
        Plan(rejected, writes, raised) ==
            [rejected |-> rejected, webtop_id |-> webtop_id, port |-> port.value,
             yaml |-> yaml_filename, writes |-> writes, raised |-> raised,
             dockerfiles |-> df.names, resources |-> rs.names, script |-> script]
        w1 == <<Saved(yaml_filename, "yaml", port.stream)>>
    IN  IF files = <<>>
        THEN [Plan("No files received", <<>>, FALSE)
                 EXCEPT !.webtop_id = None, !.port = None, !.yaml = None,
                        !.script = <<>>]
        ELSE IF yaml_file.filename = <<>>
        THEN [Plan("Missing docker-compose file", <<>>, FALSE)
                 EXCEPT !.webtop_id = None, !.port = None, !.yaml = None,
                        !.script = <<>>]
        ELSE IF SaveRaises(yaml_filename) THEN Plan("", <<>>, TRUE)
        ELSE IF df.raised THEN Plan("", w1 \o df.writes, TRUE)
        ELSE IF rs.raised THEN Plan("", w1 \o df.writes \o rs.writes, TRUE)
        ELSE Plan("", w1 \o df.writes \o rs.writes
                      \o <<[name |-> RUN_SH, file |-> File("script", <<>>, script)]>>,
                  FALSE)

\* the except branch of deploy_webtop
DeployError(webtop_id) ==
    [NoResp EXCEPT !.op = "deploy", !.code = 500, !.status = "error",
                   !.webtop_id = webtop_id]

\* DeployRejected with the validation raising instead of returning: the
\* except branch answers
DeployRejectedRaising(message) ==
    [NoResp EXCEPT !.op = "deploy", !.code = 500, !.status = "error",
                   !.message = message]

DeployRejected(message) ==
    [NoResp EXCEPT !.op = "deploy", !.code = 400, !.status = "error",
                   !.message = message]

\* the files of a plan written into a directory, in order
RECURSIVE ApplyWrites(_, _)
ApplyWrites(dir, writes) ==
    IF writes = <<>> THEN dir
    ELSE ApplyWrites(WriteFile(dir, Head(writes).name, Head(writes).file), Tail(writes))

\* deploy_webtop on the registry d, plan being what it does with the request:
\* the registry and the response it leaves, the commands it invokes, and
\* whether it launched the script, with process id pid
DeployResult(d, plan, popen_ok, pid) ==
    LET d1 == Makedirs(d, plan.webtop_id)
        d2 == [d1 EXCEPT ![plan.webtop_id] = ApplyWrites(@, plan.writes)]
        popen == <<Cmd("bash", plan.webtop_id, RUN_SH)>>
    IN  IF plan.rejected # ""
        THEN [dirs |-> d, resp |-> DeployRejected(plan.rejected), cmds |-> <<>>,
              spawned |-> FALSE]
        ELSE IF plan.raised
        THEN [dirs |-> d2, resp |-> DeployError(plan.webtop_id), cmds |-> <<>>,
              spawned |-> FALSE]
        ELSE IF ~popen_ok
        THEN [dirs |-> d2, resp |-> DeployError(plan.webtop_id), cmds |-> popen,
              spawned |-> FALSE]
        ELSE [dirs |-> d2,
              resp |-> [NoResp EXCEPT !.op = "deploy", !.code = 200,
                                      !.status = "success",
                                      !.webtop_id = plan.webtop_id,
                                      !.port = plan.port,
                                      !.yaml = plan.yaml,
                                      !.dockerfiles = plan.dockerfiles,
                                      !.resources = plan.resources,
                                      !.process_id = pid,
                                      !.container_name = ContainerName(plan.webtop_id)],
              cmds |-> popen, spawned |-> TRUE]

(***************************************************************************)
(* The launched child: bash executing run.sh, and the container runtime    *)
(* its commands drive.                                                     *)
(***************************************************************************)
\* the exit status of a child that has not exited, and of a Popen call that
\* raised and launched no child
Running == -1
NotSpawned == -2

Commands == {"docker build", "docker compose up"}

\* the line after the next line with the given op
After(script, ip, op) ==
    1 + CHOOSE j \in (ip + 1)..Len(script) :
            /\ script[j].op = op
            /\ \A k \in (ip + 1)..(j - 1) : script[k].op # op

\* bash runs the lines from ip on, $? being rc, up to the next external
\* command or to its exit
RECURSIVE Advance(_, _, _)
Advance(script, ip, rc) ==
    IF ip > Len(script) THEN [ip |-> ip, rc |-> rc, exit |-> rc]
    ELSE LET op == script[ip].op
         IN  CASE op \in Commands -> [ip |-> ip, rc |-> rc, exit |-> Running]
               [] op = "exit 1" -> [ip |-> ip, rc |-> rc, exit |-> 1]
               [] op = "if $? -ne 0" ->
                    IF rc # 0 THEN Advance(script, ip + 1, 0)
                    ELSE Advance(script, After(script, ip, "fi"), 0)
               [] op = "if $? -eq 0" ->
                    IF rc = 0 THEN Advance(script, ip + 1, 0)
                    ELSE Advance(script, After(script, ip, "else"), 1)
               [] op = "else" -> Advance(script, After(script, ip, "fi"), rc)
               [] op \in {"cd", "echo building", "echo failed", "echo starting",
                          "echo success", "echo error"} ->
                    Advance(script, ip + 1, 0)
               [] OTHER -> Advance(script, ip + 1, rc)

\* a child: the script it executes, its position in it and $?; a child that
\* has exited keeps its exit status alone
Child(webtop_id, script, a) ==
    IF a.exit = Running
    THEN [webtop_id |-> webtop_id, script |-> script,
          ip |-> a.ip, rc |-> a.rc, exit |-> Running]
    ELSE [webtop_id |-> webtop_id, script |-> <<>>, ip |-> 0, rc |-> 0,
          exit |-> a.exit]

\* Spawn with subprocess.run in place of Popen: the call returns when the child
\* has exited, here after its first command failed
SpawnWaiting(webtop_id, script, popen_ok) ==
    IF popen_ok
    THEN Child(webtop_id, script, Advance(script, Advance(script, 1, 0).ip + 1, 1))
    ELSE Child(webtop_id, script, [ip |-> 0, rc |-> 0, exit |-> NotSpawned])

\* subprocess.Popen(["bash", run_sh_path], cwd=webtop_dir): the child launched,
\* or no child when the call raises
Spawn(webtop_id, script, popen_ok) ==
    IF popen_ok THEN Child(webtop_id, script, Advance(script, 1, 0))
    ELSE Child(webtop_id, script, [ip |-> 0, rc |-> 0, exit |-> NotSpawned])

\* process.pid of the next child
NextPid(launched) ==
    1 + Cardinality({i \in 1..Len(launched) : launched[i].exit # NotSpawned})

\* the container a manifest declares: the rest of the line after container_name:
ManifestContainer(bytes) ==
    LET hits == {p \in 1..Len(bytes) : MatchLit(bytes, p, RE_CONTAINER_NAME)}
    IN  IF ~Decodable(bytes) \/ hits = {} THEN None
        ELSE LET p == CHOOSE x \in hits : \A y \in hits : x <= y
                 b == SkipWhile(bytes, p + Len(RE_CONTAINER_NAME), {" "})
                 e == SkipWhile(bytes, b, WordChars \cup {"-", "."})
             IN  SubSeq(bytes, b, e - 1)

\* the file a command of the child names, in the child's working directory
HasFile(d, webtop_id, name) ==
    /\ Exists(d, webtop_id)
    /\ name \in DOMAIN d[webtop_id]
    /\ d[webtop_id][name].bytes # <<>>

\* the containers a compose file of a workload directory declares
Declared(d, webtop_id, name) ==
    IF HasFile(d, webtop_id, name) /\ ManifestContainer(d[webtop_id][name].bytes) # None
    THEN {ManifestContainer(d[webtop_id][name].bytes)}
    ELSE {}

\* str in str
Contains(s, sub) == \E i \in 1..(Len(s) + 1) : MatchLit(s, i, sub)

\* docker ps --filter name=webtop-ubuntu-xfce-<id> --format {{.Names}}: the
\* running containers whose name contains the filter
DockerPs(running, webtop_id) ==
    Sorted({c \in running : Contains(c, ContainerName(webtop_id))})

(***************************************************************************)
(* Initial state: the upload root exists and is empty, nothing runs.       *)
(***************************************************************************)
Init ==
    /\ dirs = <<>>
    /\ children = <<>>
    /\ containers = {}
    /\ req = NoReq
    /\ resp = NoResp
    /\ cmds = <<>>
    /\ inflight = <<>>

\* the outcomes of subprocess.run: the command exits 0, exits non-zero, or
\* cannot be invoked and subprocess.run raises
RunOutcomes == {"ok", "fail", "raise"}

Request(op, webtop_id, files) == [op |-> op, webtop_id |-> webtop_id, files |-> files]

(***************************************************************************)
(* POST /deploy                                                            *)
(***************************************************************************)
\* the plans of the requests of the model
DeployPlans ==
    [files \in Requests \cup DeployRequests \cup InspectRequests \cup RegistryRequests
                    \cup StopRequests \cup RaceRequests
        |-> DeployPlan(files)]

deploy_webtop(files, popen_ok, launches) ==
    LET plan == DeployPlans[files]
        r == DeployResult(dirs, plan, popen_ok, NextPid(children))
    IN  /\ r.cmds # <<>> => Len(children) < launches
        /\ dirs' = r.dirs
        /\ children' = IF r.cmds # <<>>
                       THEN Append(children,
                                   Spawn(plan.webtop_id, plan.script, r.spawned))
                       ELSE children
        /\ req' = Request("deploy", None, files)
        /\ resp' = r.resp
        /\ cmds' = r.cmds
        /\ UNCHANGED <<containers, inflight>>

Deploy ==
    \E files \in Requests, popen_ok \in BOOLEAN : deploy_webtop(files, popen_ok, MaxPid)

\* a deploy of the deploy specification: the launch succeeds
DeployUpload == \E files \in DeployRequests : deploy_webtop(files, TRUE, MaxDeploys)

(***************************************************************************)
(* A step of a launched child: the command at its position exits with rc.  *)
(***************************************************************************)
ChildRun(pid, rc) ==
    LET c == children[pid]
        line == c.script[c.ip]
        a == Advance(c.script, c.ip + 1, rc)
    IN  /\ c.exit = Running
        /\ rc = 0 => HasFile(dirs, c.webtop_id, line.file)
        /\ children' = [children EXCEPT ![pid] = Child(c.webtop_id, c.script, a)]
        /\ containers' = IF line.op = "docker compose up" /\ rc = 0
                         THEN containers \cup Declared(dirs, c.webtop_id, line.file)
                         ELSE containers
        /\ UNCHANGED <<dirs, req, resp, cmds, inflight>>

ChildStep == \E pid \in 1..Len(children), rc \in {0, 1} : ChildRun(pid, rc)

(***************************************************************************)
(* GET /deploy/status/<webtop_id>                                          *)
(***************************************************************************)
StatusResult(running, webtop_id, ps, inspect, port) ==
    LET container_name == IF ps = "ok" THEN DockerPs(running, webtop_id) ELSE <<>>
        error == [NoResp EXCEPT !.op = "status", !.code = 500, !.status = "error",
                                !.webtop_id = webtop_id]
        c1 == <<Cmd("docker ps", webtop_id, <<>>)>>
        c2 == Append(c1, Cmd("docker inspect", webtop_id, <<>>))
        c3 == Append(c2, Cmd("docker port", webtop_id, <<>>))
    IN  IF ps = "raise" THEN [resp |-> error, cmds |-> c1]
        ELSE IF container_name = <<>>
        THEN [resp |-> [NoResp EXCEPT !.op = "status", !.code = 200,
                                      !.status = "not_running",
                                      !.webtop_id = webtop_id],
              cmds |-> c1]
        ELSE IF inspect = "raise" THEN [resp |-> error, cmds |-> c2]
        ELSE IF port = "raise" THEN [resp |-> error, cmds |-> c3]
        ELSE [resp |-> [NoResp EXCEPT !.op = "status", !.code = 200,
                                      !.status = "running",
                                      !.container = container_name,
                                      !.container_status =
                                          IF inspect = "ok" THEN "running" ELSE "",
                                      !.webtop_id = webtop_id,
                                      !.ports = IF port = "ok" THEN "3000/tcp" ELSE ""],
              cmds |-> c3]

check_webtop_status(webtop_id, ps, inspect, port) ==
    LET r == StatusResult(containers, webtop_id, ps, inspect, port)
    IN  /\ req' = Request("status", webtop_id, <<>>)
        /\ resp' = r.resp
        /\ cmds' = r.cmds
        /\ UNCHANGED <<dirs, children, containers, inflight>>

\* the outcomes of a command that the handler runs only under cond
OutcomesIf(cond) == IF cond THEN RunOutcomes ELSE {"ok"}

Status ==
    \E webtop_id \in UrlIds, ps \in RunOutcomes :
        LET found == ps = "ok" /\ DockerPs(containers, webtop_id) # <<>>
        IN  \E inspect \in OutcomesIf(found) :
                \E port \in OutcomesIf(found /\ inspect # "raise") :
                    check_webtop_status(webtop_id, ps, inspect, port)

(***************************************************************************)
(* POST /deploy/stop/<webtop_id>                                           *)
(***************************************************************************)
\* [f for f in os.listdir(webtop_dir) if f.endswith(('.yaml', '.yml'))]
YamlFiles(dir) ==
    {f \in DOMAIN dir : EndsWith(f, EXT_YAML) \/ EndsWith(f, EXT_YML)}

\* docker compose -f <yaml_path> down, exiting 0: the containers the file
\* declares are gone
Down(d, running, webtop_id, name) == running \ Declared(d, webtop_id, name)

\* a compose command exits 0 only on a file that has content
MayExit(d, webtop_id, name, outcome) ==
    (name # None /\ outcome = "ok") => HasFile(d, webtop_id, name)

\* StopResult without the check that a YAML file was found: the command runs
\* on the default docker-compose.yaml path and fails
StopResultUnchecked(d, running, webtop_id, yaml, down) ==
    IF ~Exists(d, webtop_id)
    THEN [resp |-> [NoResp EXCEPT !.op = "stop", !.code = 404, !.status = "error",
                                  !.message = "Webtop directory not found"],
          cmds |-> <<>>, containers |-> running]
    ELSE IF down = "ok" /\ YamlFiles(d[webtop_id]) # {}
    THEN [resp |-> [NoResp EXCEPT !.op = "stop", !.code = 200, !.status = "success"],
          cmds |-> <<Cmd("docker compose down", webtop_id, yaml)>>,
          containers |-> Down(d, running, webtop_id, yaml)]
    ELSE [resp |-> [NoResp EXCEPT !.op = "stop", !.code = 500, !.status = "error",
                                  !.webtop_id = webtop_id],
          cmds |-> <<Cmd("docker compose down", webtop_id, yaml)>>,
          containers |-> running]

StopResult(d, running, webtop_id, yaml, down) ==
    LET notfound(m) ==
            [resp |-> [NoResp EXCEPT !.op = "stop", !.code = 404, !.status = "error",
                                     !.message = m],
             cmds |-> <<>>, containers |-> running]
        c == <<Cmd("docker compose down", webtop_id, yaml)>>
    IN  IF ~Exists(d, webtop_id) THEN notfound("Webtop directory not found")
        ELSE IF YamlFiles(d[webtop_id]) = {} THEN notfound("No YAML file found")
        ELSE IF down = "ok"
        THEN [resp |-> [NoResp EXCEPT !.op = "stop", !.code = 200,
                                      !.status = "success"],
              cmds |-> c, containers |-> Down(d, running, webtop_id, yaml)]
        ELSE [resp |-> [NoResp EXCEPT !.op = "stop", !.code = 500, !.status = "error",
                                      !.webtop_id = webtop_id],
              cmds |-> c, containers |-> running]

\* the files yaml_files[0] can be: os.listdir returns the names in arbitrary order
FirstYaml(d, webtop_id) ==
    IF Exists(d, webtop_id) /\ YamlFiles(d[webtop_id]) # {}
    THEN YamlFiles(d[webtop_id]) ELSE {None}

stop_webtop(webtop_id, yaml, down) ==
    LET r == StopResult(dirs, containers, webtop_id, yaml, down)
    IN  /\ MayExit(dirs, webtop_id, yaml, down)
        /\ req' = Request("stop", webtop_id, <<>>)
        /\ resp' = r.resp
        /\ cmds' = r.cmds
        /\ containers' = r.containers
        /\ UNCHANGED <<dirs, children, inflight>>

Stop ==
    \E webtop_id \in UrlIds :
        \E yaml \in FirstYaml(dirs, webtop_id) :
            \E down \in OutcomesIf(yaml # None) : stop_webtop(webtop_id, yaml, down)

(***************************************************************************)
(* DELETE /deploy/cleanup/<webtop_id>                                      *)
(***************************************************************************)
\* CleanupResult without the check that the directory exists: os.listdir
\* raises and the handler answers 500
CleanupResultUnchecked(d, running, webtop_id, yaml, down) ==
    IF ~Exists(d, webtop_id) \/ (YamlFiles(d[webtop_id]) # {} /\ down = "raise")
    THEN [resp |-> [NoResp EXCEPT !.op = "cleanup", !.code = 500,
                                  !.status = "error", !.webtop_id = webtop_id],
          cmds |-> IF Exists(d, webtop_id)
                   THEN <<Cmd("docker compose down", webtop_id, yaml)>> ELSE <<>>,
          containers |-> running, dirs |-> d]
    ELSE [resp |-> [NoResp EXCEPT !.op = "cleanup", !.code = 200,
                                  !.status = "success"],
          cmds |-> IF YamlFiles(d[webtop_id]) # {}
                   THEN <<Cmd("docker compose down", webtop_id, yaml)>> ELSE <<>>,
          containers |-> IF YamlFiles(d[webtop_id]) # {} /\ down = "ok"
                         THEN Down(d, running, webtop_id, yaml) ELSE running,
          dirs |-> Rmtree(d, webtop_id)]

CleanupResult(d, running, webtop_id, yaml, down) ==
    LET c == IF YamlFiles(d[webtop_id]) # {}
             THEN <<Cmd("docker compose down", webtop_id, yaml)>> ELSE <<>>
    IN  IF ~Exists(d, webtop_id)
        THEN [resp |-> [NoResp EXCEPT !.op = "cleanup", !.code = 404,
                                      !.status = "error",
                                      !.message = "Webtop directory not found"],
              cmds |-> <<>>, containers |-> running, dirs |-> d]
        ELSE IF c # <<>> /\ down = "raise"
        THEN [resp |-> [NoResp EXCEPT !.op = "cleanup", !.code = 500,
                                      !.status = "error", !.webtop_id = webtop_id],
              cmds |-> c, containers |-> running, dirs |-> d]
        ELSE [resp |-> [NoResp EXCEPT !.op = "cleanup", !.code = 200,
                                      !.status = "success"],
              cmds |-> c,
              containers |-> IF c # <<>> /\ down = "ok"
                             THEN Down(d, running, webtop_id, yaml) ELSE running,
              dirs |-> Rmtree(d, webtop_id)]

cleanup_webtop(webtop_id, yaml, down) ==
    LET r == CleanupResult(dirs, containers, webtop_id, yaml, down)
    IN  /\ MayExit(dirs, webtop_id, yaml, down)
        /\ req' = Request("cleanup", webtop_id, <<>>)
        /\ resp' = r.resp
        /\ cmds' = r.cmds
        /\ containers' = r.containers
        /\ dirs' = r.dirs
        /\ UNCHANGED <<children, inflight>>

Cleanup ==
    \E webtop_id \in UrlIds :
        \E yaml \in FirstYaml(dirs, webtop_id) :
            \E down \in OutcomesIf(yaml # None) : cleanup_webtop(webtop_id, yaml, down)

(***************************************************************************)
(* GET /deploy/list                                                        *)
(***************************************************************************)
\* the directory of an identity under the upload root
DirName(webtop_id) == WEBTOP_PREFIX \o webtop_id

\* str.replace(old, ""): every occurrence of old is removed, left to right
RECURSIVE RemoveAll(_, _)
RemoveAll(s, old) ==
    IF s = <<>> THEN <<>>
    ELSE IF MatchLit(s, 1, old)
    THEN RemoveAll(SubSeq(s, Len(old) + 1, Len(s)), old)
    ELSE <<Head(s)>> \o RemoveAll(Tail(s), old)

\* the orders os.listdir can return a set of names in
Listings(names) ==
    {o \in [1..Cardinality(names) -> names] :
        \A i, j \in 1..Cardinality(names) : i # j => o[i] # o[j]}

\* the entry list_webtops appends for a directory name
ListEntry(running, dir_name, ps) ==
    LET webtop_id == RemoveAll(dir_name, WEBTOP_PREFIX)
        is_running == ps = "ok" /\ DockerPs(running, webtop_id) # <<>>
    IN  [webtop_id |-> webtop_id, directory |-> dir_name, is_running |-> is_running,
         container_name |-> IF is_running THEN ContainerName(webtop_id) ELSE None]

ListResult(running, listing, ps) ==
    LET matching == SelectSeq(listing, LAMBDA n : StartsWith(n, WEBTOP_PREFIX))
        raising == {i \in 1..Len(matching) : ps[matching[i]] = "raise"}
        last == IF raising = {} THEN Len(matching)
                ELSE CHOOSE i \in raising : \A j \in raising : i <= j
        c == [i \in 1..last |->
                Cmd("docker ps", RemoveAll(matching[i], WEBTOP_PREFIX), <<>>)]
    IN  IF raising # {}
        THEN [resp |-> [NoResp EXCEPT !.op = "list", !.code = 500, !.status = "error"],
              cmds |-> c]
        ELSE [resp |-> [NoResp EXCEPT !.op = "list", !.code = 200,
                                      !.status = "success",
                                      !.webtops =
                                          [i \in 1..Len(matching) |->
                                              ListEntry(running, matching[i],
                                                        ps[matching[i]])],
                                      !.count = Len(matching)],
              cmds |-> c]

list_webtops(listing, ps) ==
    LET r == ListResult(containers, listing, ps)
    IN  /\ req' = Request("list", None, <<>>)
        /\ resp' = r.resp
        /\ cmds' = r.cmds
        /\ UNCHANGED <<dirs, children, containers, inflight>>

List ==
    LET names == {DirName(i) : i \in DOMAIN dirs}
    IN  \E listing \in Listings(names), ps \in [names -> RunOutcomes] :
            list_webtops(listing, ps)

(***************************************************************************)
(* Handlers served concurrently (the server is threaded and the handlers   *)
(* take no lock): a handler in flight advances by one file-system          *)
(* operation or one external command per step.                             *)
(***************************************************************************)
\* a handler in flight: its request, its position, the files deploy has still
\* to write, the manifest stop / cleanup selected, the outcome of its
\* bring-down, and its status code and process id once it has responded
Thread(op, webtop_id, files) ==
    [op |-> op, webtop_id |-> webtop_id, files |-> files, pc |-> "start",
     todo |-> <<>>, yaml |-> None, down |-> "", code |-> 0, pid |-> 0]

Responded(t, code) == [t EXCEPT !.pc = "done", !.code = code, !.todo = <<>>]

\* the handler k takes a step to t, answering when t has responded
Becomes(k, t) ==
    /\ inflight' = [inflight EXCEPT ![k] = t]
    /\ IF t.pc = "done"
       THEN /\ req' = Request(t.op, t.webtop_id, t.files)
            /\ resp' = [NoResp EXCEPT !.op = t.op, !.code = t.code,
                                      !.process_id = t.pid]
       ELSE UNCHANGED <<req, resp>>

Begin(op, webtop_id, files) ==
    /\ Len(inflight) < MaxThreads
    /\ inflight' = Append(inflight, Thread(op, webtop_id, files))
    /\ UNCHANGED <<dirs, children, containers, req, resp, cmds>>

BeginDeploy == \E files \in RaceRequests : Begin("deploy", None, files)
BeginStop == \E webtop_id \in UrlIds : Begin("stop", webtop_id, <<>>)
BeginCleanup == \E webtop_id \in UrlIds : Begin("cleanup", webtop_id, <<>>)

At(k, op, pc) == inflight[k].op = op /\ inflight[k].pc = pc

\* deploy_webtop up to os.makedirs: the checks of the request, the manifest
\* inspection, the directory
DeployStart(k) ==
    LET t == inflight[k]
        plan == DeployPlans[t.files]
    IN  /\ At(k, "deploy", "start")
        /\ IF plan.rejected # ""
           THEN Becomes(k, Responded(t, 400)) /\ UNCHANGED dirs
           ELSE /\ Becomes(k, [t EXCEPT !.pc = "save", !.webtop_id = plan.webtop_id,
                                         !.todo = plan.writes])
                /\ dirs' = Makedirs(dirs, plan.webtop_id)
        /\ UNCHANGED <<children, containers, cmds>>

\* the next save of deploy_webtop; for run.sh, open(run_sh_path, "w"), which
\* creates the file or truncates it.  A save into a directory that is gone
\* raises.
DeploySave(k) ==
    LET t == inflight[k]
        w == Head(t.todo)
    IN  /\ At(k, "deploy", "save")
        /\ t.todo # <<>>
        /\ IF ~Exists(dirs, t.webtop_id)
           THEN Becomes(k, Responded(t, 500)) /\ UNCHANGED dirs
           ELSE IF w.name = RUN_SH
           THEN /\ Becomes(k, [t EXCEPT !.pc = "write"])
                /\ dirs' = [dirs EXCEPT ![t.webtop_id] =
                                WriteFile(@, RUN_SH, File("script", <<>>, <<>>))]
           ELSE /\ Becomes(k, [t EXCEPT !.todo = Tail(t.todo)])
                /\ dirs' = [dirs EXCEPT ![t.webtop_id] = WriteFile(@, w.name, w.file)]
        /\ UNCHANGED <<children, containers, cmds>>

\* the text of run.sh after a handler that opened it at offset 0 writes its
\* text: what another handler wrote beyond the length of this text stays (the
\* text is counted in lines)
Overwritten(existing, text) ==
    IF Len(existing) > Len(text)
    THEN text \o SubSeq(existing, Len(text) + 1, Len(existing))
    ELSE text

\* the f.write calls and the close of run.sh: the buffered text is written at
\* the start of the file
DeployWrite(k) ==
    LET t == inflight[k]
        w == Head(t.todo)
    IN  /\ At(k, "deploy", "write")
        /\ Becomes(k, [t EXCEPT !.pc = "save", !.todo = Tail(t.todo)])
        /\ dirs' = IF Exists(dirs, t.webtop_id) /\ RUN_SH \in DOMAIN dirs[t.webtop_id]
                   THEN [dirs EXCEPT ![t.webtop_id] =
                            WriteFile(@, RUN_SH,
                                      [w.file EXCEPT !.script =
                                          Overwritten(dirs[t.webtop_id][RUN_SH].script,
                                                      w.file.script)])]
                   ELSE dirs
        /\ UNCHANGED <<children, containers, cmds>>

\* os.chmod and subprocess.Popen(["bash", run_sh_path]): the child executes
\* the file as it is; then the response
DeployLaunch(k) ==
    LET t == inflight[k]
        plan == DeployPlans[t.files]
        launched == /\ ~plan.raised
                    /\ Exists(dirs, t.webtop_id)
                    /\ RUN_SH \in DOMAIN dirs[t.webtop_id]
    IN  /\ At(k, "deploy", "save")
        /\ t.todo = <<>>
        /\ IF launched
           THEN /\ Becomes(k, [Responded(t, 200) EXCEPT !.pid = NextPid(children)])
                /\ children' = Append(children,
                                      Spawn(t.webtop_id,
                                            dirs[t.webtop_id][RUN_SH].script, TRUE))
                /\ cmds' = <<Cmd("bash", t.webtop_id, RUN_SH)>>
           ELSE /\ Becomes(k, Responded(t, 500))
                /\ UNCHANGED <<children, cmds>>
        /\ UNCHANGED <<dirs, containers>>

\* os.path.exists(webtop_dir) of stop_webtop and cleanup_webtop
CheckExists(k) ==
    LET t == inflight[k]
    IN  /\ At(k, "stop", "start") \/ At(k, "cleanup", "start")
        /\ Becomes(k, IF Exists(dirs, t.webtop_id) THEN [t EXCEPT !.pc = "listdir"]
                      ELSE Responded(t, 404))
        /\ UNCHANGED <<dirs, children, containers, cmds>>

\* os.listdir(webtop_dir) and the choice of yaml_files[0]; it raises when the
\* directory is gone
Listdir(k) ==
    LET t == inflight[k]
    IN  /\ At(k, "stop", "listdir") \/ At(k, "cleanup", "listdir")
        /\ IF ~Exists(dirs, t.webtop_id) THEN Becomes(k, Responded(t, 500))
           ELSE IF YamlFiles(dirs[t.webtop_id]) # {}
           THEN \E yaml \in YamlFiles(dirs[t.webtop_id]) :
                    Becomes(k, [t EXCEPT !.pc = "down", !.yaml = yaml])
           ELSE IF t.op = "stop" THEN Becomes(k, Responded(t, 404))
           ELSE Becomes(k, [t EXCEPT !.pc = "rmtree"])
        /\ UNCHANGED <<dirs, children, containers, cmds>>

\* subprocess.run(["docker", "compose", "-f", yaml_path, "down"],
\* cwd=webtop_dir); it raises when the working directory is gone
RunDown(k, down) ==
    LET t == inflight[k]
        gone == ~Exists(dirs, t.webtop_id)
        raised == gone \/ down = "raise"
    IN  /\ At(k, "stop", "down") \/ At(k, "cleanup", "down")
        /\ gone => down = "raise"
        /\ MayExit(dirs, t.webtop_id, t.yaml, down)
        /\ Becomes(k, IF raised
                      THEN [Responded(t, 500) EXCEPT !.down = IF gone THEN "" ELSE down]
                      ELSE IF t.op = "cleanup"
                      THEN [t EXCEPT !.pc = "rmtree", !.down = down]
                      ELSE [Responded(t, IF down = "ok" THEN 200 ELSE 500)
                                EXCEPT !.down = down])
        /\ containers' = IF down = "ok"
                         THEN Down(dirs, containers, t.webtop_id, t.yaml)
                         ELSE containers
        /\ cmds' = <<Cmd("docker compose down", t.webtop_id, t.yaml)>>
        /\ UNCHANGED <<dirs, children>>

\* shutil.rmtree(webtop_dir); it raises when the directory is gone
RemoveTree(k) ==
    LET t == inflight[k]
    IN  /\ At(k, "cleanup", "rmtree")
        /\ IF Exists(dirs, t.webtop_id)
           THEN /\ Becomes(k, Responded(t, 200))
                /\ dirs' = Rmtree(dirs, t.webtop_id)
           ELSE Becomes(k, Responded(t, 500)) /\ UNCHANGED dirs
        /\ UNCHANGED <<children, containers, cmds>>

\* the concurrent deploys
NextConcurrentDeploy ==
    \/ BeginDeploy
    \/ \E k \in 1..Len(inflight) : DeployStart(k)
    \/ \E k \in 1..Len(inflight) : DeploySave(k)
    \/ \E k \in 1..Len(inflight) : DeployWrite(k)
    \/ \E k \in 1..Len(inflight) : DeployLaunch(k)

SpecConcurrentDeploy == Init /\ [][NextConcurrentDeploy]_vars

\* a deploy served in one step, not interleaved with the other requests
DeployAlone == \E files \in StopRequests : deploy_webtop(files, TRUE, MaxSetup)

\* concurrent stops and cleanups of the workloads deployed
NextConcurrentCleanup ==
    \/ DeployAlone
    \/ BeginStop
    \/ BeginCleanup
    \/ \E k \in 1..Len(inflight) : CheckExists(k)
    \/ \E k \in 1..Len(inflight) : Listdir(k)
    \/ \E k \in 1..Len(inflight), down \in RunOutcomes : RunDown(k, down)
    \/ \E k \in 1..Len(inflight) : RemoveTree(k)

SpecConcurrentCleanup == Init /\ [][NextConcurrentCleanup]_vars

(***************************************************************************)
(* The service: requests are served one at a time, and the launched        *)
(* children run beside them.                                               *)
(***************************************************************************)
Next ==
    \/ Deploy
    \/ ChildStep
    \/ Status
    \/ Stop
    \/ Cleanup
    \/ List

Spec == Init /\ [][Next]_vars

\* the deploy specification: deploys alone, of the wider set of requests
NextDeploy == DeployUpload

SpecDeploy == Init /\ [][NextDeploy]_vars

\* the inspection specification: deploys of the manifests of InspectRequests
DeployManifest == \E files \in InspectRequests : deploy_webtop(files, TRUE, MaxInspect)

NextInspect == DeployManifest

SpecInspect == Init /\ [][NextInspect]_vars

\* the script-execution specification: a deploy of the deploy specification
\* and the steps of the child it launches
DeployRun == \E files \in DeployRequests : deploy_webtop(files, TRUE, MaxRun)

NextRun ==
    \/ DeployRun
    \/ ChildStep

SpecRun == Init /\ [][NextRun]_vars

\* the stop specification: deploys of StopRequests, stop and cleanup
DeployStop == \E files \in StopRequests : deploy_webtop(files, TRUE, MaxStop)

NextStop ==
    \/ DeployStop
    \/ Stop
    \/ Cleanup

SpecStop == Init /\ [][NextStop]_vars

\* the registry specification: deploys and cleanups of the identities of
\* RegistryIds, and list
DeployRegistered ==
    \E files \in RegistryRequests : deploy_webtop(files, TRUE, MaxRegistry)

CleanupRegistered ==
    \E webtop_id \in RegistryIds :
        \E yaml \in FirstYaml(dirs, webtop_id) :
            \E down \in OutcomesIf(yaml # None) : cleanup_webtop(webtop_id, yaml, down)

NextRegistry ==
    \/ DeployRegistered
    \/ CleanupRegistered
    \/ List

SpecRegistry == Init /\ [][NextRegistry]_vars

(***************************************************************************)
(* Properties.                                                             *)
(***************************************************************************)
\* the last handler was a deploy that answered with code
Deployed(code) == resp.op = "deploy" /\ resp.code = code

\* the run script in the workload directory of an identity
ScriptOf(webtop_id) == dirs[webtop_id][RUN_SH].script

\* the lines of a script with the given op
LinesOf(script, op) == SelectSeq(script, LAMBDA l : l.op = op)

\* the build files of a request, in the order of the request body
SubmittedBuilds(files) ==
    SelectSeq(files, LAMBDA part : StartsWith(part.key, DOCKERFILE_PREFIX))

\* the positions of the build commands and of the bring-up commands of a script
BuildAt(script) == {i \in 1..Len(script) : script[i].op = "docker build"}
UpAt(script) == {i \in 1..Len(script) : script[i].op = "docker compose up"}

\* the files the build steps of a script build, in order
BuiltFiles(script) ==
    [k \in 1..Len(LinesOf(script, "docker build")) |->
        LinesOf(script, "docker build")[k].file]

\* C1: deploying the manifest `container_name: webtop-ubuntu-xfce-bob` with the
\* quoted mapping `- "3030:3000"`, no build file and no resource file, answers
\* success with identity bob, port 3030, empty dockerfiles and resources lists,
\* and writes a script with the bring-up step and no build step.
C1_QuotedPortScenario ==
    (/\ req.op = "deploy"
     /\ req.files = <<Part(KEY_COMPOSE, NameComposeYaml, ManifestBobQuoted)>>)
    => /\ Deployed(200)
       /\ resp.webtop_id = IdBob
       /\ resp.port = <<3030>>
       /\ resp.dockerfiles = <<>>
       /\ resp.resources = <<>>
       /\ UpAt(ScriptOf(IdBob)) # {}
       /\ BuildAt(ScriptOf(IdBob)) = {}

\* C2: after a successful deploy with n build files the script has exactly n
\* build-and-check blocks in submission order, the k-th building the k-th
\* submitted build file under the tag webtop-custom-<identity>-<k>, followed by
\* exactly one bring-up step.
C2_BlocksInSubmissionOrder ==
    Deployed(200) =>
        LET script == ScriptOf(resp.webtop_id)
            builds == SubmittedBuilds(req.files)
            blocks == LinesOf(script, "docker build")
        IN  /\ Len(blocks) = Len(builds)
            /\ \A i \in BuildAt(script) :
                    /\ script[i + 1].op = "if $? -ne 0"
                    /\ script[i + 3].op = "exit 1"
            /\ \A k \in 1..Len(blocks) :
                    /\ blocks[k].n = k
                    /\ blocks[k].id = resp.webtop_id
                    /\ blocks[k].file \in DOMAIN dirs[resp.webtop_id]
                    /\ dirs[resp.webtop_id][blocks[k].file].bytes = builds[k].bytes
            /\ Cardinality(UpAt(script)) = 1
            /\ \A u \in UpAt(script) : \A i \in BuildAt(script) : i < u

\* C3: manifest inspection leaves the manifest stream at its start, whether
\* the extractions return a value or None, so the manifest file a deploy
\* persists has exactly the uploaded bytes.
C3_ManifestPersistedIntact ==
    Deployed(200) =>
        LET yaml_file == FilesGet(req.files, KEY_COMPOSE)
            stream == [bytes |-> yaml_file.bytes, pos |-> 0]
        IN  /\ extract_port_from_yaml(extract_user_from_yaml(stream).stream).stream.pos = 0
            /\ dirs[resp.webtop_id][resp.yaml].bytes = yaml_file.bytes

\* C4 as claimed: the build steps of the run script of a workload directory
\* are the build files present in the directory.
C4_ScriptMatchesDirectory ==
    \A i \in DOMAIN dirs :
        RUN_SH \in DOMAIN dirs[i] =>
            {ScriptOf(i)[k].file : k \in BuildAt(ScriptOf(i))}
                = {f \in DOMAIN dirs[i] : dirs[i][f].kind = "dockerfile"}

\* C4 as amended: the run script a deploy writes is a function of the identity
\* and of the artifacts this deploy saved, the manifest name and the list of
\* build-file names it reports: its build steps are those names in order, its
\* bring-up step names that manifest, and nothing of the directory's earlier
\* content (a prior script, build files of earlier deploys) is in it.
C4_ScriptFromSavedArtifacts ==
    Deployed(200) =>
        /\ BuiltFiles(ScriptOf(resp.webtop_id)) = resp.dockerfiles
        /\ \A u \in UpAt(ScriptOf(resp.webtop_id)) :
                ScriptOf(resp.webtop_id)[u].file = resp.yaml
        /\ ScriptOf(resp.webtop_id)
                = RunScript(resp.webtop_id, resp.yaml, resp.dockerfiles)

\* a deploy has succeeded on a directory that holds a build file of an earlier
\* deploy, which this deploy did not save
C4_Witness ==
    /\ Deployed(200)
    /\ \E f \in DOMAIN dirs[resp.webtop_id] :
            /\ dirs[resp.webtop_id][f].kind = "dockerfile"
            /\ \A k \in 1..Len(resp.dockerfiles) : resp.dockerfiles[k] # f

\* C5: a workload directory exists only for an identity that a successful
\* deploy launched a child for; a deploy answered 400 or 500 leaves no new
\* directory.
C5_DirectoryOnlyAfterSuccess ==
    \A i \in DOMAIN dirs :
        \E k \in 1..Len(children) :
            children[k].webtop_id = i /\ children[k].exit # NotSpawned

\* C6: cleanup of an identity without a workload directory answers 404,
\* changes no directory and invokes no command.
C6_CleanupMissing ==
    [][\A i \in UrlIds : \A yaml \in FirstYaml(dirs, i) : \A down \in RunOutcomes :
          (cleanup_webtop(i, yaml, down) /\ ~Exists(dirs, i))
          => /\ resp'.code = 404
             /\ dirs' = dirs
             /\ cmds' = <<>>
             /\ containers' = containers]_vars

\* a cleanup has answered 404 while another workload directory exists
C6_Witness ==
    /\ resp.op = "cleanup"
    /\ resp.code = 404
    /\ ~Exists(dirs, req.webtop_id)
    /\ DOMAIN dirs # {}

\* C7: stop answers 404 and invokes no command when the directory is missing
\* or holds no .yaml / .yml file; otherwise it invokes bring-down and answers
\* 200 when the command exits 0 and 500 when it does not.
C7_StopOutcomes ==
    [][\A i \in UrlIds : \A yaml \in FirstYaml(dirs, i) : \A down \in RunOutcomes :
          stop_webtop(i, yaml, down)
          => IF ~Exists(dirs, i) \/ YamlFiles(dirs[i]) = {}
             THEN resp'.code = 404 /\ cmds' = <<>>
             ELSE /\ cmds' = <<Cmd("docker compose down", i, yaml)>>
                  /\ resp'.code = IF down = "ok" THEN 200 ELSE 500]_vars

\* a stop has answered 404 for a directory that exists and holds no YAML file
C7_Witness ==
    /\ resp.op = "stop"
    /\ resp.code = 404
    /\ Exists(dirs, req.webtop_id)
    /\ YamlFiles(dirs[req.webtop_id]) = {}

\* C8: the deploy response is produced when the child is spawned: at that
\* step the response is the success with the child's process id and the child
\* has not finished, and no later step of a child changes the response.
C8_FireAndForget ==
    [][/\ (/\ Len(children') > Len(children)
           /\ children'[Len(children')].exit # NotSpawned)
          => /\ resp'.op = "deploy" /\ resp'.code = 200
             /\ resp'.process_id = NextPid(children)
             /\ children'[Len(children')].exit = Running
       /\ (\E pid \in 1..Len(children) : children'[pid] # children[pid])
          => UNCHANGED <<req, resp>>]_vars

\* a status request served after the deploy responded finds the workload not
\* running, the child of that deploy having failed
C8_Witness ==
    /\ resp.op = "status"
    /\ resp.status = "not_running"
    /\ \E k \in 1..Len(children) :
            children[k].webtop_id = req.webtop_id /\ children[k].exit = 1

\* C9: a cleanup that attempted the bring-down, whatever came of the attempt,
\* has removed the directory and answered success.
C9_CleanupIgnoresStopFailure ==
    (resp.op = "cleanup" /\ cmds # <<>>)
    => /\ resp.code = 200
       /\ ~Exists(dirs, req.webtop_id)

\* C10: a workload directory disappears only in a cleanup of its own
\* identity.
C10_OnlyCleanupDestroys ==
    [][\A i \in DOMAIN dirs :
          ~Exists(dirs', i)
          => \E yaml \in FirstYaml(dirs, i) : \E down \in RunOutcomes :
                cleanup_webtop(i, yaml, down)]_vars

\* a cleanup has removed a directory and another directory is still there
C10_Witness ==
    /\ resp.op = "cleanup"
    /\ resp.code = 200
    /\ ~Exists(dirs, req.webtop_id)
    /\ DOMAIN dirs # {}

\* C11: a successful list has one entry per workload directory, the
\* webtop_id of the entries are the identities the deploys created the
\* directories for, count is the number of entries, and on an empty registry
\* the list is empty with count 0.
C11_ListIsRegistry ==
    (resp.op = "list" /\ resp.code = 200)
    => /\ Len(resp.webtops) = Cardinality(DOMAIN dirs)
       /\ {resp.webtops[k].webtop_id : k \in 1..Len(resp.webtops)} = DOMAIN dirs
       /\ resp.count = Len(resp.webtops)
       /\ DOMAIN dirs = {} => resp.webtops = <<>> /\ resp.count = 0

\* C12: a status that answers for an identity without a workload directory
\* answers not_running.
C12_AbsentIsNotRunning ==
    (resp.op = "status" /\ resp.code = 200 /\ ~Exists(dirs, req.webtop_id))
    => resp.status = "not_running"

\* C13: a status whose list query found a container, and so went on to the
\* inspect query, answers running with the container name, whatever comes of
\* the inspect and port queries.
C13_FoundNotMasked ==
    (resp.op = "status" /\ Len(cmds) >= 2)
    => /\ resp.status = "running"
       /\ resp.container # <<>>

\* C14: a deploy with no file, or without the docker-compose field, answers
\* 400 and changes nothing: no directory, no file, no script, no process.
C14_RejectedHasNoEffect ==
    [][\A files \in Requests : \A popen_ok \in BOOLEAN :
          (/\ deploy_webtop(files, popen_ok, MaxPid)
           /\ \A k \in 1..Len(files) : files[k].key # KEY_COMPOSE)
          => /\ resp'.code = 400
             /\ dirs' = dirs
             /\ children' = children
             /\ containers' = containers
             /\ cmds' = <<>>]_vars

\* a deploy of build files without a manifest has been rejected while a
\* workload directory exists
C14_Witness ==
    /\ Deployed(400)
    /\ req.files # <<>>
    /\ \A k \in 1..Len(req.files) : req.files[k].key # KEY_COMPOSE
    /\ DOMAIN dirs # {}

\* the manifest a deploy request uploads
UploadedManifest == FilesGet(req.files, KEY_COMPOSE).bytes

\* C15: for a manifest with the line container_name: webtop-ubuntu-xfce-<token>
\* identity extraction returns the whole token, also a token with a - in it, and
\* deploy uses it; for a manifest without that line it returns None and deploy
\* uses default_user.
C15_IdentityIsWholeToken ==
    Deployed(200) =>
        LET user == extract_user_from_yaml([bytes |-> UploadedManifest, pos |-> 0]).value
        IN  /\ \A t \in Tokens : \A m \in Mappings :
                    UploadedManifest = ManifestOf(<<t>>, m)
                    => user = t /\ resp.webtop_id = t
            /\ \A m \in Mappings :
                    UploadedManifest = ManifestOf(<<>>, m)
                    => user = None /\ resp.webtop_id = DEFAULT_USER

\* the host port of the first mapping whose container port is 3000, None
\* when no mapping has it
FirstMappingTo3000(mappings) ==
    LET at == {k \in 1..Len(mappings) : mappings[k] = Port3000}
    IN  IF at = {} THEN None
        ELSE <<ParseInt(HostPorts[CHOOSE k \in at : \A j \in at : k <= j])>>

\* C16: the port a deploy reports is the host port of the first mapping whose
\* container port is exactly 3000, and None, not a default, when the manifest
\* has no such mapping, a mapping to port 30000 not counting.
C16_PortOfMappingTo3000 ==
    Deployed(200) =>
        \A name \in {<<>>} \cup {<<t>> : t \in Tokens} : \A m \in Mappings :
            UploadedManifest = ManifestOf(name, m)
            => resp.port = FirstMappingTo3000(m)

\* the positions of the steps of a script: its builds and its bring-up
StepsAt(script) == BuildAt(script) \cup UpAt(script)

\* the builds of a script are numbered 1..n in order and a single bring-up
\* comes after them
BuildsThenUp(script) ==
    /\ \A i \in BuildAt(script) :
            /\ script[i].n = Cardinality({j \in BuildAt(script) : j <= i})
            /\ \A u \in UpAt(script) : i < u
    /\ Cardinality(UpAt(script)) = 1

\* C17: a launched child starts at the first step of a script whose steps are
\* the builds 1..n and then the bring-up; a step that succeeds is followed by
\* the next step, or by exit 0 when it was the bring-up; a step that fails
\* makes the script exit non-zero with no later step run.
C17_AbortOnFailure ==
    [][/\ \A pid \in (Len(children) + 1)..Len(children') :
              children'[pid].exit = Running
              => /\ BuildsThenUp(children'[pid].script)
                 /\ \A i \in StepsAt(children'[pid].script) : children'[pid].ip <= i
                 /\ children'[pid].ip \in StepsAt(children'[pid].script)
       /\ \A pid \in 1..Len(children) : \A rc \in {0, 1} :
              ChildRun(pid, rc)
              => LET later == {i \in StepsAt(children[pid].script) :
                                    i > children[pid].ip}
                 IN  /\ rc # 0 => children'[pid].exit \notin {Running, 0}
                     /\ (rc = 0 /\ later # {})
                        => /\ children'[pid].exit = Running
                           /\ children'[pid].ip \in later
                           /\ \A i \in later : children'[pid].ip <= i
                     /\ (rc = 0 /\ later = {}) => children'[pid].exit = 0]_vars

\* a child whose script has at least two builds has reached the bring-up
C17_Witness ==
    \E pid \in 1..Len(children) :
        /\ children[pid].exit = Running
        /\ children[pid].ip \in UpAt(children[pid].script)
        /\ Cardinality(BuildAt(children[pid].script)) >= 2

\* the manifest the script of a workload directory brings up: the one the
\* most recent deploy that wrote the script saved
DeployedManifest(webtop_id) ==
    ScriptOf(webtop_id)[CHOOSE u \in UpAt(ScriptOf(webtop_id)) : TRUE].file

\* C18: on a workload directory that a deploy has completed, stop and the
\* stop step of cleanup invoke bring-down on the manifest file that deploy
\* saved and brought up, whatever its file name and whatever else is in the
\* directory.
C18_DownOnDeployedManifest ==
    [][\A i \in UrlIds : \A yaml \in FirstYaml(dirs, i) : \A down \in RunOutcomes :
          (/\ stop_webtop(i, yaml, down) \/ cleanup_webtop(i, yaml, down)
           /\ Exists(dirs, i)
           /\ RUN_SH \in DOMAIN dirs[i])
          => cmds' = <<Cmd("docker compose down", i, DeployedManifest(i))>>]_vars

\* the workload directory after the deploy of request a and then the deploy
\* of request b, each served alone, on an empty registry
OneAfterTheOther(a, b) ==
    ApplyWrites(ApplyWrites(NoFiles, DeployPlans[a].writes), DeployPlans[b].writes)

\* C19: once two concurrent deploys of one identity have both answered, the
\* workload directory is the one the two deploys leave when served one after
\* the other, in one of the two orders, and every child launched executes the
\* run script of one of the two deploys.
C19_LastWriteWins ==
    (/\ Len(inflight) = 2
     /\ \A k \in 1..2 : inflight[k].op = "deploy" /\ inflight[k].pc = "done")
    => /\ dirs[IdBob] \in {OneAfterTheOther(inflight[1].files, inflight[2].files),
                           OneAfterTheOther(inflight[2].files, inflight[1].files)}
       /\ \A pid \in 1..Len(children) :
              children[pid].script \in {DeployPlans[inflight[1].files].script,
                                        DeployPlans[inflight[2].files].script}

\* C20: under concurrency a stop or a cleanup whose own bring-down did not
\* fail answers success or not-found (404), never an internal error (500).
C20_NotFoundUnderRace ==
    \A k \in 1..Len(inflight) :
        (/\ inflight[k].op \in {"stop", "cleanup"}
         /\ inflight[k].pc = "done"
         /\ inflight[k].down \notin {"fail", "raise"})
        => inflight[k].code \in {200, 404}

====
